---- MODULE Spec2Model ----
(***************************************************************************)
(* organizador-archivos: a command-line tool that scans one directory for  *)
(* files with a given extension, asks for confirmation, moves the matches  *)
(* into <source>/<extension>/ and reports through a chain of notification  *)
(* mechanisms.  The model follows src/src/main.rs: main (lines 123-225)    *)
(* and send_notification (lines 30-109).                                   *)
(*                                                                         *)
(* A string is the sequence of its characters and a character is its       *)
(* Unicode code point, so that trimming, lowercasing and extension         *)
(* splitting are computed, not assumed.  The case tables of the standard   *)
(* library vary with the toolchain, which src/ does not pin: case is       *)
(* computed for the characters whose case is the same in every version.    *)
(***************************************************************************)
EXTENDS Integers, Sequences, FiniteSets, TLC

VARIABLES
    fs,          \* the filesystem below the source path: a set of nodes
    srcKind,     \* what the source path is: "missing", "file" or "dir"
    args,        \* args[2] of the command line (the extension argument)
    ext_objetivo,\* the normalized extension
    archivos_encontrados, \* the Match Set, a sequence of paths
    respuesta,   \* the line read from standard input
    idx,         \* position of the move loop in archivos_encontrados
    movidos,     \* count of successful renames
    attempts,    \* the renames attempted so far: <<path, ok>> in order
    created,     \* whether this run created the destination directory
    fs0,         \* the filesystem as it was when the run started
    pc,          \* position of the program
    ended_at,    \* the position at which main returned or panicked, "" before
    outcome,     \* how main ended: "" while running
    out,         \* the lines written to stdout / stderr, in order
    notif,       \* the arguments of the send_notification call
    tried,       \* the dispatcher's steps: [mech, op, res] in order
    run,         \* index of the current invocation of the tool
    prev         \* summary of the previous invocation

vars == <<fs, srcKind, args, ext_objetivo, archivos_encontrados, respuesta, idx,
          movidos, attempts, created, fs0, pc, ended_at, outcome, out, notif, tried,
          run, prev>>

----------------------------------------------------------------------------
(* Bounds of the model *)

\* most entries directly inside the source directory
MaxTop == 2
\* most leading separators of the extension argument
MaxDots == 2
\* most letters of the extension argument
MaxExtLen == 1
\* most command-line arguments (program name included)
MaxArgc == 4
\* invocations of the tool in a row
MaxRuns == 2

----------------------------------------------------------------------------
(* Strings *)

RECURSIVE SeqsUpTo(_, _)
SeqsUpTo(S, n) ==
    IF n = 0 THEN {<<>>}
    ELSE LET shorter == SeqsUpTo(S, n - 1)
         IN  shorter \cup {Append(s, c) : s \in {t \in shorter : Len(t) = n - 1}, c \in S}

\* the printable ASCII characters in the order of their code points: from
\* the space (32) to the underscore (95), and from a (97) to the tilde (126)
AsciiLow == " !\"#$%&'()*+,-./0123456789:;<=>?@ABCDEFGHIJKLMNOPQRSTUVWXYZ[\\]^_"
AsciiHigh == "abcdefghijklmnopqrstuvwxyz{|}~"

\* the code point of a printable ASCII character
ord(c) ==
    IF \E i \in 1..Len(AsciiLow) : SubSeq(AsciiLow, i, i) = c
    THEN 31 + (CHOOSE i \in 1..Len(AsciiLow) : SubSeq(AsciiLow, i, i) = c)
    ELSE 96 + (CHOOSE i \in 1..Len(AsciiHigh) : SubSeq(AsciiHigh, i, i) = c)

\* a literal of printable ASCII characters as a string of the program
Str(lit) == [i \in 1..Len(lit) |-> ord(SubSeq(lit, i, i))]

\* the separator of file name and extension: '.'
Dot == ord(".")

\* the characters with the Unicode property White_Space
WhiteSpace == { 9, 10, 11, 12, 13, 32, 133, 160, 5760,
                8192, 8193, 8194, 8195, 8196, 8197, 8198, 8199, 8200, 8201, 8202,
                8232, 8233, 8239, 8287, 12288 }

\* u8::to_ascii_lowercase: the capital letters, the small letters, and how
\* far the capital letters lie below them
AsciiUpper == ord("A")..ord("Z")
AsciiLower == ord("a")..ord("z")
AsciiCaseOffset == ord("a") - ord("A")

\* the ASCII characters that are Case_Ignorable: apostrophe, full stop,
\* colon, circumflex accent, grave accent (code point 96)
AsciiCaseIgnorable == {ord("'"), ord("."), ord(":"), ord("^"), 96}

\* The letters outside ASCII that the strings of the model are made of.
\* Their case is the same in every version of the tables of core::unicode;
\* the case of other characters outside ASCII depends on the version the
\* program is built with and is not computed: the operators below are
\* defined on Chars only.
\*
\* capital letters and what char::to_lowercase yields for them: E with
\* acute, I with dot above (two characters), omicron with tonos, sigma
\* (where it is not final), the Kelvin sign
CapitalLower == << <<201, <<233>>>>, <<304, <<105, 775>>>>, <<908, <<972>>>>,
                   <<931, <<963>>>>, <<8490, <<107>>>> >>
Capitals == {CapitalLower[k][1] : k \in 1..Len(CapitalLower)}
\* small letters: e with acute, long s, final sigma, sigma, omicron with tonos
Smalls == {233, 383, 962, 963, 972}
\* nonspacing marks: the combining dot above
Marks == {775}

\* the characters on which case is computed
Chars == 0..127 \cup Capitals \cup Smalls \cup Marks \cup WhiteSpace

\* core::unicode::Cased
Cased(c) ==
    CASE c \in 0..127 -> c \in AsciiUpper \cup AsciiLower
      [] c > 127 /\ c \in Chars -> c \in Capitals \cup Smalls

\* core::unicode::Case_Ignorable
Case_Ignorable(c) ==
    CASE c \in 0..127 -> c \in AsciiCaseIgnorable
      [] c > 127 /\ c \in Chars -> c \in Marks

\* char::to_lowercase: the characters a character lowercases to
LowerChar(c) ==
    CASE c \in AsciiUpper -> <<c + AsciiCaseOffset>>
      [] c \in Capitals ->
            CapitalLower[CHOOSE k \in 1..Len(CapitalLower) : CapitalLower[k][1] = c][2]
      [] c \in Chars \ (AsciiUpper \cup Capitals) -> <<c>>

Reverse(s) == [i \in 1..Len(s) |-> s[Len(s) + 1 - i]]

RECURSIVE Concat(_)
Concat(q) == IF q = <<>> THEN <<>> ELSE Head(q) \o Concat(Tail(q))

\* the capital sigma, and what it lowercases to at the end of a word and elsewhere
Sigma == [capital |-> 931, final |-> 962, small |-> 963]

\* whether the first character that is not Case_Ignorable exists and is Cased
RECURSIVE case_ignorable_then_cased(_)
case_ignorable_then_cased(s) ==
    IF s = <<>> THEN FALSE
    ELSE IF Case_Ignorable(Head(s)) THEN case_ignorable_then_cased(Tail(s))
    ELSE Cased(Head(s))

\* the lowercase of the capital sigma at position i of s: the final form when
\* a cased letter precedes it and none follows it, case-ignorable characters aside
map_uppercase_sigma(s, i) ==
    IF /\ case_ignorable_then_cased(Reverse(SubSeq(s, 1, i - 1)))
       /\ ~case_ignorable_then_cased(SubSeq(s, i + 1, Len(s)))
    THEN Sigma.final ELSE Sigma.small

\* str::to_lowercase
to_lowercase(s) ==
    Concat([i \in 1..Len(s) |->
               IF s[i] = Sigma.capital THEN <<map_uppercase_sigma(s, i)>>
               ELSE LowerChar(s[i])])

\* str::trim_start_matches(c): removes every leading repetition of c
RECURSIVE trim_start_matches(_, _)
trim_start_matches(s, c) ==
    IF Len(s) > 0 /\ s[1] = c THEN trim_start_matches(Tail(s), c) ELSE s

\* char::is_whitespace, which str::trim uses
is_whitespace(c) == c \in WhiteSpace

RECURSIVE trim_start(_)
trim_start(s) == IF Len(s) > 0 /\ is_whitespace(s[1]) THEN trim_start(Tail(s)) ELSE s

RECURSIVE trim_end(_)
trim_end(s) ==
    IF Len(s) > 0 /\ is_whitespace(s[Len(s)])
    THEN trim_end(SubSeq(s, 1, Len(s) - 1)) ELSE s

\* str::trim
trim(s) == trim_end(trim_start(s))

\* positions of the separator in a file name
DotsOf(name) == {i \in 1..Len(name) : name[i] = Dot}

RECURSIVE SetMax(_)
SetMax(S) == LET x == CHOOSE y \in S : TRUE
             IN  IF S = {x} THEN x
                 ELSE LET m == SetMax(S \ {x}) IN IF x > m THEN x ELSE m

\* Path::extension of a file name, as the set {} (None) or {e} (Some(e)):
\* None for "..", for a name without a separator and for a name whose only
\* separator is its first character; otherwise what follows the last one.
extension(name) ==
    IF name = <<Dot, Dot>> \/ DotsOf(name) = {} THEN {}
    ELSE LET d == SetMax(DotsOf(name))
         IN  IF d = 1 THEN {} ELSE {SubSeq(name, d + 1, Len(name))}

\* args[2].trim_start_matches('.').to_lowercase()
NormalizeExt(e) == to_lowercase(trim_start_matches(e, Dot))

----------------------------------------------------------------------------
(* The inputs: extension arguments, responses, directory trees *)

RECURSIVE Dots(_)
Dots(k) == IF k = 0 THEN <<>> ELSE <<Dot>> \o Dots(k - 1)

\* extension arguments: some leading separators, then letters
ExtArgs == {Dots(k) \o w : k \in 0..MaxDots, w \in SeqsUpTo({ord("m"), ord("M")}, MaxExtLen)}

\* a line as read_line returns it: its characters and the line feed
Line(s) == s \o <<10>>

\* lines that read_line can return: end of input, an empty line, the
\* affirmative token bare, in either case and with whitespace around it
\* (a no-break space before, a form feed after), and other answers, one of
\* them the long s (code point 383), which is its own lowercase
Responses == { <<>>, Line(<<>>),
               Str("s"), Line(Str("s")), Line(Str("S")), Line(<<160>> \o Str("S") \o <<12>>),
               Line(Str("n")), Line(<<383>>), Line(Str("si")), Line(Str("s s")) }

\* the entries a source directory can hold: a name and a kind
TopEntries == { <<Str("a.m"), "file">>, <<Str("a.m"), "dir">>,
                <<Str("b.M"), "file">>, <<Str("c.t"), "file">>,
                <<Str("m"), "dir">>, <<Str("m"), "file">>,
                <<Str("a."), "file">>, <<Str(".m"), "file">> }
\* the subdirectories that can hold entries: the destination of extension m
KidParents == { Str("m") }
\* the entries a subdirectory can hold
KidEntries == { <<Str("a.m"), "file">>, <<Str("a.m"), "dir">>, <<Str("z"), "file">> }

UniqueNames(S) == \A x, y \in S : x[1] = y[1] => x = y

\* the contents a directory can have, drawn from a pool of entries
Choices(pool) == {S \in SUBSET pool : Cardinality(S) <= MaxTop /\ UniqueNames(S)}

TopChoices == Choices(TopEntries)
KidChoices == {S \in SUBSET KidEntries : UniqueNames(S)}

\* a node of the tree: its path below the source directory, its kind, and
\* data, which identifies its content (the path it had when the model started)
Node(p, k) == [path |-> p, kind |-> k, data |-> p]

TreeOf(T, f) ==
    {Node(<<e[1]>>, e[2]) : e \in T}
    \cup UNION {{Node(<<d, k[1]>>, k[2]) : k \in f[d]} : d \in DOMAIN f}

TreesOver(tops) ==
    UNION {{TreeOf(T, f) :
              f \in [{e[1] : e \in {x \in T : x[2] = "dir" /\ x[1] \in KidParents}} -> KidChoices]}
           : T \in tops}

Trees == TreesOver(TopChoices)

\* Inputs of the discovery alone: extension arguments of up to two letters,
\* among them the Greek sigma in its three forms, and names bearing such
\* extensions
DiscoveryWords ==
    { <<>>, Str("m"), Str("M"), Str("t"),
      <<Sigma.capital>>, <<Sigma.small>>, <<Sigma.final>>,
      Str("m") \o <<Sigma.capital>>, Str("M") \o <<Sigma.capital>>,
      Str("m") \o <<Sigma.small>>, Str("M") \o <<Sigma.small>>,
      Str("m") \o <<Sigma.final>>,
      <<Sigma.capital>> \o Str("m"), <<Sigma.small>> \o Str("M") }

DiscoveryArgs == {Dots(k) \o w : k \in 0..MaxDots, w \in DiscoveryWords}

DiscoveryEntries ==
    { <<Str("a.m"), "file">>, <<Str("a.m"), "dir">>, <<Str("b.M"), "file">>,
      <<Str("c.t"), "file">>, <<Str("m"), "dir">>,
      <<Str("a."), "file">>, <<Str(".m"), "file">>,
      <<Str("a.m") \o <<Sigma.final>>, "file">>,
      <<Str("b.m") \o <<Sigma.small>>, "file">>,
      <<Str("c.M") \o <<Sigma.capital>>, "file">>,
      <<Str("d.") \o <<Sigma.capital>>, "file">>,
      <<Str("e.") \o <<Sigma.final>>, "file">> }

DiscoveryTrees == TreesOver(Choices(DiscoveryEntries))

----------------------------------------------------------------------------
(* The filesystem calls of main *)

\* the source directory itself, as WalkDir yields it at depth 0
Root == <<>>

NodeAt(tree, p) == {n \in tree : n.path = p}

\* as exists, were the check of line 183 always to find nothing
exists_never(tree, p) == FALSE

\* Path::exists
exists(tree, p) == p = Root \/ NodeAt(tree, p) # {}

\* Path::is_dir
is_dir(tree, p) == p = Root \/ \E n \in NodeAt(tree, p) : n.kind = "dir"

\* Path::is_file
is_file(tree, p) == \E n \in NodeAt(tree, p) : n.kind = "file"

\* WalkDir::new(path_origen).max_depth(1): the root and its direct entries
WalkDepth1(tree) == {Root} \cup {n.path : n \in {x \in tree : Len(x.path) = 1}}

\* Path::file_name
file_name(p) == p[Len(p)]

\* as Matches without the to_lowercase of line 148
MatchesCaseSensitive(tree, ext) ==
    {p \in WalkDepth1(tree) :
        /\ is_file(tree, p)
        /\ \E e \in extension(file_name(p)) : e = ext}

\* the filter of the discovery loop (lines 145-152)
Matches(tree, ext) ==
    {p \in WalkDepth1(tree) :
        /\ is_file(tree, p)
        /\ \E e \in extension(file_name(p)) : to_lowercase(e) = ext}

\* the orders in which the walk can yield a set of paths
Orders(S) == {q \in [1..Cardinality(S) -> S] : \A i, j \in 1..Cardinality(S) : q[i] = q[j] => i = j}

\* PathBuf::from(path_origen).push(ext_objetivo): pushing "" names the source itself
ruta_destino(ext) == IF ext = <<>> THEN Root ELSE <<ext>>

\* ruta_destino.clone().push(nombre_archivo)
destino_final(ext, p) == ruta_destino(ext) \o <<file_name(p)>>

\* whether fs::rename(from, to) can return Ok: the parent of `to` is a
\* directory and `to` is absent, a file, or `from` itself
rename_can_succeed(tree, from, to) ==
    /\ exists(tree, from)
    /\ is_dir(tree, SubSeq(to, 1, Len(to) - 1))
    /\ (to = from \/ ~exists(tree, to) \/ is_file(tree, to))

\* the tree after fs::rename(from, to) returned Ok: the node at `to`, if any, is replaced
rename_ok(tree, from, to) ==
    IF to = from THEN tree
    ELSE LET n == CHOOSE x \in NodeAt(tree, from) : TRUE
         IN  (tree \ (NodeAt(tree, from) \cup NodeAt(tree, to)))
             \cup {[path |-> to, kind |-> n.kind, data |-> n.data]}

\* the tree after fs::create_dir(p) returned Ok
create_dir_ok(tree, p) == tree \cup {[path |-> p, kind |-> "dir", data |-> <<"created">>]}

\* as Affirmative, were only an explicit "n" to decline
AffirmativeUnlessNo(r) == to_lowercase(trim(r)) # Str("n")

\* the affirmative token of line 175
Yes == Str("s")

\* respuesta.trim().to_lowercase() != "s" is false
Affirmative(r) == to_lowercase(trim(r)) = Yes

----------------------------------------------------------------------------
(* The state after construction *)

\* no call of send_notification yet
NoNotice == [title |-> "", body |-> [kind |-> "", count |-> 0, ext |-> <<>>], icon |-> ""]

NoRun == [matches |-> 0, movidos |-> 0, outcome |-> ""]

\* the state when main is entered, the extension argument and the tree
\* drawn from the given sets
InitFrom(extArgs, trees) ==
    /\ srcKind \in {"missing", "file", "dir"}
    /\ fs \in (IF srcKind = "dir" THEN trees ELSE {{}})
    /\ args \in extArgs
    /\ fs0 = fs
    /\ ext_objetivo = <<>>
    /\ archivos_encontrados = <<>>
    /\ respuesta = <<>>
    /\ idx = 1
    /\ movidos = 0
    /\ attempts = <<>>
    /\ created = FALSE
    /\ pc = "start"
    /\ ended_at = ""
    /\ outcome = ""
    /\ out = <<>>
    /\ notif = NoNotice
    /\ tried = <<>>
    /\ run = 1
    /\ prev = NoRun

Init == InitFrom(ExtArgs, Trees)

InitDiscovery == InitFrom(DiscoveryArgs, DiscoveryTrees)

\* args.len() < 3: the program name and two arguments are needed
MinArgs == 3

\* main returns or panics: nothing more runs
Finish(how) == pc' = "done" /\ ended_at' = pc /\ outcome' = how

\* println!, eprintln! and print! followed by flush().unwrap() panic when the
\* write fails: the lines before it are written, the failing one is not
PrintPanics(written) == out' = out \o written /\ Finish("panic_print")

\* the lines are written and main goes on
Goes(written, to) == out' = out \o written /\ pc' = to /\ UNCHANGED <<ended_at, outcome>>

----------------------------------------------------------------------------
(* main, lines 123-225 *)

\* lines 124-134: the collection of the arguments (env::args panics on an
\* argument that is not valid Unicode), the argument count check and the
\* normalization of args[2]
Start ==
    /\ pc = "start"
    /\ \/ /\ Finish("panic_unicode")
          /\ UNCHANGED <<out, ext_objetivo>>
       \/ \E argc \in 0..MaxArgc :
            IF argc < MinArgs
            THEN /\ UNCHANGED ext_objetivo
                 /\ \/ PrintPanics(<<>>)
                    \/ IF argc = 0
                       THEN \* args[0] is indexed after the first eprintln!: panic
                            out' = Append(out, "USAGE") /\ Finish("panic_args")
                       ELSE \/ PrintPanics(<<"USAGE">>)
                            \/ out' = out \o <<"USAGE", "EXAMPLE">> /\ Finish("usage")
            ELSE /\ ext_objetivo' = NormalizeExt(args)
                 /\ Goes(<<>>, "check_source")
    /\ UNCHANGED <<fs, srcKind, args, archivos_encontrados, respuesta, idx, movidos,
                   attempts, created, fs0, notif, tried, run, prev>>

\* lines 135-140: the source path must exist and be a directory
CheckSource ==
    /\ pc = "check_source"
    /\ IF srcKind # "dir"
       THEN \/ PrintPanics(<<>>)
            \/ out' = Append(out, "INVALID_SOURCE") /\ Finish("invalid_source")
       ELSE Goes(<<>>, "discover")
    /\ UNCHANGED <<fs, srcKind, args, ext_objetivo, archivos_encontrados, respuesta, idx,
                   movidos, attempts, created, fs0, notif, tried, run, prev>>

\* as is_empty, were the early return of lines 155-158 never taken
is_empty_never(found) == FALSE

\* archivos_encontrados.is_empty() (line 155)
is_empty(found) == Len(found) = 0

\* lines 142-158: the walk, in whatever order the directory yields its
\* entries, and the early return on an empty Match Set
Discover ==
    /\ pc = "discover"
    /\ \E found \in Orders(Matches(fs, ext_objetivo)) :
         /\ archivos_encontrados' = found
         /\ IF is_empty(found)
            THEN \/ PrintPanics(<<>>)
                 \/ out' = Append(out, "INFO_NO_MATCH") /\ Finish("no_match")
            ELSE Goes(<<>>, "prompt")
    /\ UNCHANGED <<fs, srcKind, args, ext_objetivo, respuesta, idx, movidos, attempts,
                   created, fs0, notif, tried, run, prev>>

\* lines 161-170: the summary line and the prompt, flushed
Prompt ==
    /\ pc = "prompt"
    /\ \/ PrintPanics(<<>>)
       \/ PrintPanics(<<"FOUND">>)
       \/ Goes(<<"FOUND", "PROMPT">>, "confirm")
    /\ UNCHANGED <<fs, srcKind, args, ext_objetivo, archivos_encontrados, respuesta, idx,
                   movidos, attempts, created, fs0, notif, tried, run, prev>>

\* lines 172-178: one line of standard input, waited for without limit
\* (read_line(..).unwrap() panics on a read error), and the decision
Confirm ==
    /\ pc = "confirm"
    /\ \/ /\ Finish("panic_read")
          /\ UNCHANGED <<out, respuesta>>
       \/ \E r \in Responses :
            /\ respuesta' = r
            /\ IF ~Affirmative(r)
               THEN \/ PrintPanics(<<>>)
                    \/ out' = Append(out, "CANCELLED") /\ Finish("cancelled")
               ELSE Goes(<<>>, "ensure_destination")
    /\ UNCHANGED <<fs, srcKind, args, ext_objetivo, archivos_encontrados, idx, movidos,
                   attempts, created, fs0, notif, tried, run, prev>>

\* as expect_panics, were the result of create_dir dropped
expect_ignored(ok) == FALSE

\* fs::create_dir(..).expect("No se pudo crear la carpeta") panics on Err
expect_panics(ok) == ~ok

\* lines 180-186: create the destination unless the path exists; a failed
\* creation ends the run, and so does a failed write of the creation line
EnsureDestination ==
    /\ pc = "ensure_destination"
    /\ IF exists(fs, ruta_destino(ext_objetivo))
       THEN /\ Goes(<<>>, "move")
            /\ UNCHANGED <<fs, created>>
       ELSE \E ok \in BOOLEAN :
            /\ fs' = IF ok THEN create_dir_ok(fs, ruta_destino(ext_objetivo)) ELSE fs
            /\ created' = ok
            /\ IF expect_panics(ok)
               THEN Finish("panic_create") /\ UNCHANGED out
               ELSE \/ PrintPanics(<<>>)
                    \/ Goes(<<"FOLDER_CREATED">>, "move")
    /\ UNCHANGED <<srcKind, args, ext_objetivo, archivos_encontrados, respuesta, idx,
                   movidos, attempts, fs0, notif, tried, run, prev>>

\* the match on the result of fs::rename (lines 194-201): only Ok counts
Counted(n, ok) == IF ok THEN n + 1 ELSE n

\* lines 189-202: one iteration of the move loop; a rename may fail for
\* reasons outside the model (permissions), and must fail when it cannot
\* succeed; the line of the file goes to stdout (moved, before the count is
\* raised) or to stderr (not moved), and a failed write ends the run there
MoveOne ==
    /\ pc = "move"
    /\ idx <= Len(archivos_encontrados)
    /\ LET ruta_archivo == archivos_encontrados[idx]
           destino == destino_final(ext_objetivo, ruta_archivo)
       IN  \E ok \in BOOLEAN :
             /\ ok => rename_can_succeed(fs, ruta_archivo, destino)
             /\ fs' = IF ok THEN rename_ok(fs, ruta_archivo, destino) ELSE fs
             /\ attempts' = Append(attempts, <<ruta_archivo, ok>>)
             /\ \/ /\ PrintPanics(<<>>)
                   /\ UNCHANGED <<movidos, idx>>
                \/ /\ Goes(<<IF ok THEN "MOVED" ELSE "MOVE_FAILED">>, "move")
                   /\ movidos' = Counted(movidos, ok)
                   /\ idx' = idx + 1
    /\ UNCHANGED <<srcKind, args, ext_objetivo, archivos_encontrados, respuesta, created,
                   fs0, notif, tried, run, prev>>

\* the arguments main gives send_notification (lines 211-224)
Notice(n, ext) ==
    IF n > 0
    THEN [title |-> "Organizador de Archivos", body |-> [kind |-> "moved", count |-> n, ext |-> ext],
          icon |-> "folder-download"]
    ELSE [title |-> "Organizador de Archivos",
          body |-> [kind |-> "no_movement", count |-> 0, ext |-> <<>>], icon |-> "info"]

\* lines 204-224: the summary line and the call of send_notification
Report ==
    /\ pc = "move"
    /\ idx > Len(archivos_encontrados)
    /\ \/ /\ PrintPanics(<<>>)
          /\ UNCHANGED notif
       \/ /\ Goes(<<"FINALIZADO">>, "native")
          /\ notif' = Notice(movidos, ext_objetivo)
    /\ UNCHANGED <<fs, srcKind, args, ext_objetivo, archivos_encontrados, respuesta, idx,
                   movidos, attempts, created, fs0, tried, run, prev>>

----------------------------------------------------------------------------
(* send_notification, lines 30-109 *)

\* the external utilities, in the order of lines 47-105
Externals == <<"notify-send", "kdialog", "zenity">>
ProbePc == <<"probe_notify_send", "probe_kdialog", "probe_zenity">>
InvokePc == <<"invoke_notify_send", "invoke_kdialog", "invoke_zenity">>

\* where the chain goes after the k-th external utility
AfterExternal(k) == IF k < Len(Externals) THEN ProbePc[k + 1] ELSE "console"

Step(mech, op, res) == [mech |-> mech, op |-> op, res |-> res]

\* `which <tool>` .output().map(|o| o.status.success()).unwrap_or(false)
ProbeSays(res) == res = "present"

\* as InvokeReturns without the `return` of the Ok branch
InvokeFallsThrough(res) == FALSE

\* `if let Ok(_) = Command::new(<tool>)....output()`: the utility was spawned
\* and waited for; its exit status is not looked at
InvokeReturns(res) == res # "spawn_error"

MainUnchanged ==
    UNCHANGED <<fs, srcKind, args, ext_objetivo, archivos_encontrados, respuesta, idx,
                movidos, attempts, created, fs0, notif, run, prev>>

\* show() and Command::output() wait for the backend with no timeout: a
\* backend that never answers keeps send_notification inside the call
Waits(res) == res = "never_returns"

\* send_notification stays inside a call
Held == pc' = "blocked" /\ UNCHANGED <<ended_at, outcome, out>>

\* lines 34-45: the native API
Native ==
    /\ pc = "native"
    /\ \E res \in {"ok", "err", "never_returns"} :
         /\ tried' = Append(tried, Step("native", "call", res))
         /\ IF Waits(res) THEN Held
            ELSE IF res = "ok" THEN Finish("finished") /\ UNCHANGED out
            ELSE Goes(<<>>, ProbePc[1])
    /\ MainUnchanged

\* lines 48-53, 68-73, 87-92: the presence probe of the k-th utility
Probe(k) ==
    /\ pc = ProbePc[k]
    /\ \E res \in {"present", "absent", "probe_error", "never_returns"} :
         /\ tried' = Append(tried, Step(Externals[k], "probe", res))
         /\ IF Waits(res) THEN Held
            ELSE IF ProbeSays(res) THEN Goes(<<>>, InvokePc[k])
            ELSE Goes(<<>>, AfterExternal(k))
    /\ MainUnchanged

\* lines 54-64, 74-83, 93-104: the invocation of the k-th utility
Invoke(k) ==
    /\ pc = InvokePc[k]
    /\ \E res \in {"exit_zero", "exit_nonzero", "spawn_error", "never_returns"} :
         /\ tried' = Append(tried, Step(Externals[k], "invoke", res))
         /\ IF Waits(res) THEN Held
            ELSE IF InvokeReturns(res) THEN Finish("finished") /\ UNCHANGED out
            ELSE Goes(<<>>, AfterExternal(k))
    /\ MainUnchanged

\* line 108: the console fallback, a println! like the others, then the
\* return to main, which returns
Console ==
    /\ pc = "console"
    /\ \/ /\ tried' = Append(tried, Step("console", "print", "write_failed"))
          /\ PrintPanics(<<>>)
       \/ /\ tried' = Append(tried, Step("console", "print", "ok"))
          /\ out' = Append(out, "NOTIFICATION")
          /\ Finish("finished")
    /\ MainUnchanged

send_notification == Native \/ (\E k \in 1..Len(Externals) : Probe(k) \/ Invoke(k)) \/ Console

main ==
    Start \/ CheckSource \/ Discover \/ Prompt \/ Confirm \/ EnsureDestination \/ MoveOne \/ Report

----------------------------------------------------------------------------
(* The tool run again on the same directory with the same arguments *)

Rerun ==
    /\ pc = "done"
    /\ run < MaxRuns
    /\ run' = run + 1
    /\ prev' = [matches |-> Len(archivos_encontrados), movidos |-> movidos, outcome |-> outcome]
    /\ fs0' = fs
    /\ ext_objetivo' = <<>>
    /\ archivos_encontrados' = <<>>
    /\ respuesta' = <<>>
    /\ idx' = 1
    /\ movidos' = 0
    /\ attempts' = <<>>
    /\ created' = FALSE
    /\ pc' = "start"
    /\ ended_at' = ""
    /\ outcome' = ""
    /\ out' = <<>>
    /\ notif' = NoNotice
    /\ tried' = <<>>
    /\ UNCHANGED <<fs, srcKind, args>>

Next == main \/ send_notification

\* one invocation of the tool
Spec == Init /\ [][Next]_vars

NextRerun == Next \/ Rerun

\* invocations in a row on the same directory with the same arguments
SpecRerun == Init /\ [][NextRerun]_vars

NextDiscovery == Start \/ CheckSource \/ Discover

\* main up to the end of its discovery loop, on the inputs of the discovery
DiscoverySpec == InitDiscovery /\ [][NextDiscovery]_vars

----------------------------------------------------------------------------
(* Vocabulary of the claims *)

Range(q) == {q[i] : i \in 1..Len(q)}

\* how many elements of a sequence satisfy being equal to x
Occurrences(q, x) == Cardinality({i \in 1..Len(q) : q[i] = x})

\* send_notification has been called in this run
Called == notif # NoNotice

\* how far the run got: where it is, or where it ended
Where == IF pc = "done" THEN ended_at ELSE pc

\* position of a mechanism in the priority order of the specification
Rank(mech) ==
    CASE mech = "native" -> 1
      [] mech = "notify-send" -> 2
      [] mech = "kdialog" -> 3
      [] mech = "zenity" -> 4
      [] mech = "console" -> 5

\* a step that shows its mechanism unavailable or failed
ShowsFailure(st) == st.res \in {"err", "absent", "probe_error", "spawn_error", "exit_nonzero"}

\* a step by which its mechanism delivered the notification
ShowsSuccess(st) ==
    \/ st.op = "call" /\ st.res = "ok"
    \/ st.op = "invoke" /\ st.res = "exit_zero"
    \/ st.op = "print" /\ st.res = "ok"

----------------------------------------------------------------------------
(* The notification dispatcher *)

\* C1: the mechanisms are tried in the order native, notify-send, kdialog,
\* zenity, console; no mechanism is tried twice (the only step that stays on
\* a mechanism is the invocation right after its successful probe); nothing
\* is probed, invoked or printed after a step that delivered; every
\* mechanism that precedes the one reached has a step showing it unavailable
\* or failed (by the order, a step before those of the mechanism reached);
\* and when zenity delivers, the console line is not written.
FirstSuccessWins ==
    /\ \A i \in 1..Len(tried) : \A j \in 1..(i - 1) :
         /\ Rank(tried[j].mech) <= Rank(tried[i].mech)
         /\ Rank(tried[j].mech) = Rank(tried[i].mech) =>
              /\ j = i - 1
              /\ tried[j].op = "probe" /\ tried[j].res = "present"
              /\ tried[i].op = "invoke"
         /\ ~ShowsSuccess(tried[j])
    /\ tried # <<>> =>
         \A r \in 1..(Rank(tried[Len(tried)].mech) - 1) :
            \E j \in 1..(Len(tried) - 1) : Rank(tried[j].mech) = r /\ ShowsFailure(tried[j])
    /\ Step("zenity", "invoke", "exit_zero") \in Range(tried) =>
         /\ "NOTIFICATION" \notin Range(out)
         /\ \A st \in Range(tried) : st.mech # "console"

\* the native API and the first two utilities unavailable or failing, the third delivering
ThirdUtilityDelivers ==
    /\ pc = "done"
    /\ tried = << Step("native", "call", "err"),
                  Step("notify-send", "probe", "absent"),
                  Step("kdialog", "probe", "present"),
                  Step("kdialog", "invoke", "spawn_error"),
                  Step("zenity", "probe", "present"),
                  Step("zenity", "invoke", "exit_zero") >>

\* C2: an invocation of a probed utility that fails, by a spawn error or by
\* a non-zero exit status, does not end the dispatcher: the next step is on
\* the next mechanism of the priority order.
FailedInvocationFallsThrough ==
    \A i \in 1..Len(tried) :
        (tried[i].op = "invoke" /\ tried[i].res \in {"spawn_error", "exit_nonzero"}) =>
            /\ ~(i = Len(tried) /\ pc = "done")
            /\ i < Len(tried) => Rank(tried[i + 1].mech) = Rank(tried[i].mech) + 1

\* the native call failed and every probe reported absence or failed itself
AllUnavailable ==
    /\ Step("native", "call", "err") \in Range(tried)
    /\ \A k \in 1..Len(Externals) :
         \E st \in Range(tried) :
            st.mech = Externals[k] /\ st.op = "probe" /\ st.res \in {"absent", "probe_error"}

\* C3: send_notification is never held inside a call, and a run that called
\* it ends by its normal return to main, whatever the mechanisms did; a
\* utility is invoked only right after its probe said
\* present; and when the native call failed and every probe reported absence
\* or failed, no utility was invoked and the console line is written exactly
\* once.
AlwaysVisibleOutput ==
    /\ pc # "blocked"
    /\ (pc = "done" /\ Called) => outcome = "finished"
    /\ \A i \in 1..Len(tried) :
         tried[i].op = "invoke" =>
            i > 1 /\ tried[i - 1] = Step(tried[i].mech, "probe", "present")
    /\ (pc = "done" /\ AllUnavailable) =>
         /\ \A st \in Range(tried) : st.op # "invoke"
         /\ Occurrences(out, "NOTIFICATION") = 1
         /\ Cardinality({i \in 1..Len(tried) : tried[i].mech = "console"}) = 1

----------------------------------------------------------------------------
(* The file relocator *)

\* positions of main up to the decision on the answer
BeforeDecision == {"start", "check_source", "discover", "prompt", "confirm"}

\* a line was read from standard input in this run
Answered ==
    /\ Where \notin {"start", "check_source", "discover", "prompt"}
    /\ pc # "confirm"
    /\ outcome # "panic_read"

\* whitespace as the claim means it: the blank, the ASCII controls from tab
\* to carriage return, and the other Unicode spaces and line separators
IsBlank(c) ==
    \/ c = 32 \/ c \in 9..13
    \/ c \in {133, 160, 5760, 8232, 8233, 8239, 8287, 12288}
    \/ c \in 8192..8202

\* the letter of the affirmative answer, in either case
LetterS == {ord("s"), ord("S")}

\* the claim's reading of the answer: one letter s, in either case, with
\* nothing but whitespace around it
SaysYes(r) ==
    \E i \in 1..Len(r) :
        /\ r[i] \in LetterS
        /\ \A j \in 1..Len(r) : j # i => IsBlank(r[j])

\* C4: a run that read an answer other than "s" (trimmed, lowercased) has
\* ended at the decision, by the return of line 177 or by the panic of a
\* cancellation line that could not be written, with no file moved, nothing
\* created and no call of send_notification; and a rename is attempted, or
\* the tree differs, only in a run whose answer was "s".
ConfirmationFailClosed ==
    /\ (Answered /\ ~SaysYes(respuesta)) =>
         /\ pc = "done" /\ ended_at = "confirm"
         /\ outcome \in {"cancelled", "panic_print"}
         /\ outcome = "cancelled" <=> out[Len(out)] = "CANCELLED"
         /\ fs = fs0 /\ attempts = <<>> /\ movidos = 0 /\ ~created
         /\ ~Called /\ tried = <<>> /\ "NOTIFICATION" \notin Range(out)
    /\ (fs # fs0 \/ attempts # <<>> \/ movidos > 0) => (Answered /\ SaysYes(respuesta))

\* a non-empty Match Set declined by an empty line
DeclinedByEmptyLine ==
    /\ pc = "done" /\ outcome = "cancelled"
    /\ archivos_encontrados # <<>>
    /\ respuesta = Line(<<>>)

\* C5 as stated: a run that found no match shows no prompt, moves nothing,
\* prints the informational message, and calls send_notification with the
\* "no movement" message.
NoMatchStillNotifies ==
    (pc = "done" /\ outcome = "no_match") =>
        /\ "PROMPT" \notin Range(out)
        /\ fs = fs0 /\ attempts = <<>>
        /\ "INFO_NO_MATCH" \in Range(out)
        /\ Called /\ notif.body.kind = "no_movement"

\* C5 as amended: a run that found no match shows no prompt, moves nothing,
\* writes nothing but the informational message (or panics on its failed
\* write) and ends there without calling send_notification; every run that
\* got further has a non-empty Match Set; and the "no movement" message is
\* sent only by a confirmed run that attempted every rename and saw every
\* one fail.
NoMatchReturnsSilently ==
    /\ (pc = "done" /\ ended_at = "discover") =>
         /\ archivos_encontrados = <<>>
         /\ \/ outcome = "no_match" /\ out = <<"INFO_NO_MATCH">>
            \/ outcome = "panic_print" /\ out = <<>>
         /\ fs = fs0 /\ attempts = <<>> /\ movidos = 0
         /\ ~Called /\ tried = <<>>
    /\ Where \notin {"start", "check_source", "discover"} => archivos_encontrados # <<>>
    /\ (Called /\ notif.body.kind = "no_movement") =>
         /\ archivos_encontrados # <<>>
         /\ Len(attempts) = Len(archivos_encontrados)
         /\ \A i \in 1..Len(attempts) : ~attempts[i][2]
         /\ movidos = 0

\* a directory with entries, none of them a match
NoMatchReturn ==
    /\ pc = "done" /\ outcome = "no_match"
    /\ fs # {}
    /\ ~Called

\* C6: the renames attempted so far are the first files of the Match Set, in
\* its order, one attempt per file; movidos counts the attempts that
\* succeeded; a file whose rename failed is still in the source directory as
\* it was; and once the loop was entered the run goes on to its end: when
\* send_notification is called every file was attempted and the count it
\* reports is the number of successes, and a run that attempted a rename
\* ends only after it attempted them all.
PartialFailureTolerant ==
    /\ Len(attempts) <= Len(archivos_encontrados)
    /\ \A i \in 1..Len(attempts) : attempts[i][1] = archivos_encontrados[i]
    /\ \A i, j \in 1..Len(archivos_encontrados) :
         archivos_encontrados[i] = archivos_encontrados[j] => i = j
    /\ pc # "done" => movidos = Cardinality({i \in 1..Len(attempts) : attempts[i][2]})
    /\ \A i \in 1..Len(attempts) :
         ~attempts[i][2] => \E n \in fs : n.path = attempts[i][1] /\ n \in fs0
    /\ Called =>
         /\ Len(attempts) = Len(archivos_encontrados)
         /\ "FINALIZADO" \in Range(out)
         /\ notif.body.kind = "moved" <=> movidos > 0
         /\ notif.body.count = movidos
    /\ (pc = "done" /\ attempts # <<>>) => Len(attempts) = Len(archivos_encontrados)

\* the entries of a tree that lie directly inside the destination of ext
InsideDestination(tree, ext) ==
    IF ext = <<>> THEN {n \in tree : Len(n.path) = 1}
    ELSE {n \in tree : Len(n.path) = 2 /\ n.path[1] = ext}

\* the destination path existed when the run started
DestinationExisted == ext_objetivo = <<>> \/ \E n \in fs0 : n.path = <<ext_objetivo>>

\* the run went past the confirmation
Proceeded == Where \notin BeforeDecision

\* n is a file that this run moved into the destination
MovedHere(n) ==
    \E i \in 1..Len(attempts) :
        /\ attempts[i][2]
        /\ n.path[Len(n.path)] = attempts[i][1][1]
        /\ n.data = attempts[i][1]
        /\ n.kind = "file"

\* C7 as stated: in a confirmed run whose destination path existed, nothing
\* is created, no creation error ends the run, every entry that was inside
\* the destination is still there unchanged, and whatever else is inside it
\* is a file this run moved.
DestinationContentsUntouched ==
    (Proceeded /\ DestinationExisted) =>
        /\ ~created /\ outcome # "panic_create" /\ "FOLDER_CREATED" \notin Range(out)
        /\ \A n \in InsideDestination(fs0, ext_objetivo) : n \in fs
        /\ \A n \in InsideDestination(fs, ext_objetivo) : n \in fs0 \/ MovedHere(n)

\* C7 as amended: the same, except that an entry that was inside the
\* destination may be gone when it was a regular file bearing the name of a
\* file this run moved, which replaced it.
DestinationKeptExceptCollisions ==
    (Proceeded /\ DestinationExisted) =>
        /\ ~created /\ outcome # "panic_create" /\ "FOLDER_CREATED" \notin Range(out)
        /\ \A n \in InsideDestination(fs0, ext_objetivo) :
             \/ n \in fs
             \/ /\ n.kind = "file"
                /\ \E i \in 1..Len(attempts) :
                     attempts[i][2] /\ attempts[i][1][1] = n.path[Len(n.path)]
        /\ \A n \in InsideDestination(fs, ext_objetivo) : n \in fs0 \/ MovedHere(n)

\* a file moved into a destination that held a file of the same name, which
\* it replaced, and another entry, which is kept
MovedBesideExisting ==
    /\ pc = "done" /\ outcome = "finished"
    /\ ext_objetivo = Str("m")
    /\ DestinationExisted
    /\ \E n \in fs0 : n.path = <<Str("m"), Str("a.m")>> /\ n.kind = "file"
    /\ \E n \in fs : n.path = <<Str("m"), Str("a.m")>> /\ n.data = <<Str("a.m")>>
    /\ \E n \in fs \cap fs0 : n.path = <<Str("m"), Str("z")>>

\* the discovery loop has just ended: at the summary line, or ended for want of a match
DiscoveryDone == pc = "prompt" \/ (pc = "done" /\ ended_at = "discover")

\* the run got past discovery
Discovered == Where \notin {"start", "check_source"} /\ pc # "discover"

\* C8: after a confirmed run that moved every file of its non-empty Match
\* Set, the next run on the same directory with the same extension argument,
\* once past discovery, has found no match and changes nothing.
RunIdempotent ==
    (/\ run > 1
     /\ prev.outcome = "finished" /\ prev.matches > 0 /\ prev.movidos = prev.matches
     /\ Discovered) =>
        /\ archivos_encontrados = <<>>
        /\ ended_at = "discover"
        /\ fs = fs0

\* the character between a file name and its extension, and before the
\* extension argument
Separator == ord(".")

\* the extension argument without one leading separator
StripOne(e) == IF Len(e) > 0 /\ e[1] = Separator THEN Tail(e) ELSE e

\* the extension argument without its leading separators
StripAll(e) ==
    LET lead == Cardinality({i \in 1..Len(e) : \A j \in 1..i : e[j] = Separator})
    IN  SubSeq(e, lead + 1, Len(e))

\* the capital and the small form of the letters of the explored extensions;
\* the capital sigma, which has two small forms, is treated apart
LetterCase == {<<ord("M"), ord("m")>>, <<ord("T"), ord("t")>>}

Letters ==
    UNION {{p[1], p[2]} : p \in LetterCase} \cup {Sigma.capital, Sigma.small, Sigma.final}

\* position i of s ends a word: a letter stands before it and none after it
EndsWord(s, i) ==
    /\ i > 1 /\ s[i - 1] \in Letters
    /\ ~(i < Len(s) /\ s[i + 1] \in Letters)

\* the small form of the letter at position i of s: of a capital sigma the
\* final form at the end of a word and the other form elsewhere
SmallAt(s, i) ==
    IF s[i] = Sigma.capital THEN (IF EndsWord(s, i) THEN Sigma.final ELSE Sigma.small)
    ELSE IF \E p \in LetterCase : p[1] = s[i]
    THEN (CHOOSE p \in LetterCase : p[1] = s[i])[2]
    ELSE s[i]

\* a string lowercased, letter by letter
Lowered(s) == [i \in 1..Len(s) |-> SmallAt(s, i)]

\* the regular files directly inside the directory whose name is a non-empty
\* stem, a separator, and an extension without separator that lowercased is target
ClaimedMatchSet(tree, target) ==
    {n.path : n \in {x \in tree :
        /\ Len(x.path) = 1
        /\ x.kind = "file"
        /\ \E k \in 2..Len(x.path[1]) :
             /\ x.path[1][k] = Separator
             /\ \A j \in (k + 1)..Len(x.path[1]) : x.path[1][j] # Separator
             /\ Lowered(SubSeq(x.path[1], k + 1, Len(x.path[1]))) = target}}

\* two characters that are one letter in whatever case
SameLetter(c, d) ==
    \/ c = d
    \/ <<c, d>> \in LetterCase \/ <<d, c>> \in LetterCase
    \/ c = Sigma.capital /\ d \in {Sigma.small, Sigma.final}
    \/ d = Sigma.capital /\ c \in {Sigma.small, Sigma.final}

\* two strings that differ only in letter case
DifferInCaseOnly(x, y) ==
    Len(x) = Len(y) /\ \A i \in 1..Len(x) : SameLetter(x[i], y[i])

\* two strings that differ only in letter case, a capital sigma being the
\* capital of the final form at the end of a word and of the other form elsewhere
DifferInCaseOnlyByPosition(x, y) ==
    /\ Len(x) = Len(y)
    /\ \A i \in 1..Len(x) : x[i] = y[i] \/ SmallAt(x, i) = y[i] \/ SmallAt(y, i) = x[i]

NoChangeBeforeConfirmation ==
    /\ Where \in BeforeDecision \cup {"ensure_destination"} /\ ~created =>
         fs = fs0 /\ attempts = <<>>
    /\ Where \in BeforeDecision =>
         /\ fs = fs0 /\ ~created /\ attempts = <<>>
         /\ "FOLDER_CREATED" \notin Range(out)
         /\ ~Called /\ tried = <<>>
    /\ (Proceeded /\ pc # "ensure_destination" /\ ~DestinationExisted /\ ~created) =>
         /\ pc = "done" /\ outcome = "panic_create"
         /\ fs = fs0 /\ attempts = <<>>
         /\ ~Called /\ tried = <<>>
    /\ \A i, j \in 1..Len(out) :
         (out[i] = "FOLDER_CREATED" /\ out[j] \in {"MOVED", "MOVE_FAILED"}) => i < j
    /\ attempts # <<>> => (created \/ DestinationExisted)
    /\ created => \E n \in fs : n.path = <<ext_objetivo>> /\ n.kind = "dir" /\ n \notin fs0

\* a confirmed run stopped by the failure to create the destination
CreationFailureAborts ==
    /\ pc = "done" /\ outcome = "panic_create"
    /\ archivos_encontrados # <<>>
    /\ fs = fs0

====
